---- MODULE Spec2Model ----
(***************************************************************************)
(* Model of src/transactions_analysis.py: the Saudi bank SMS analyzer.     *)
(*                                                                         *)
(* Strings are sequences of lexemes.  A lexeme is one character (a digit,  *)
(* a punctuation sign, a blank, a line break) or one maximal word of       *)
(* letters.  The Arabic words of the source are written in Latin letters:  *)
(*   "shiraa"    the purchase type marker        (line 30)                 *)
(*   "bitaqa"    the card word                   (lines 30, 39)            *)
(*   "itimaniya" , "tahwil"  the rest of the credit transfer marker        *)
(*   "mablagh"   the amount label                (line 34)                 *)
(*   "lada"      the vendor label                (line 35)                 *)
(*   "fi"        the date label                  (lines 36, 37, 41)        *)
(*   "mada", "abl", "bay"  the card scheme words of the sample (line 134)  *)
(*   "hawala"    a transaction type the program does not accept            *)
(***************************************************************************)
EXTENDS Integers, Sequences, FiniteSets, TLC

VARIABLES
    pc,                   \* position of the process
    OPENAI_API_KEY,       \* TRUE iff the credential is set in the environment
    sms_text,             \* the text read by input()
    transaction_details,  \* process_sms_text's local: the extractor's result
    extracted,            \* the extractor's result as it was returned
    transaction,          \* process_sms_text's local: analyze_transaction's list
    response,             \* what the completion service did on the call
    file,                 \* data/transactions_analysis.json
    file0,                \* the file as it was when the process started
    disk,                 \* what the file system does on the write
    result,               \* process_sms_text's return value
    raised,               \* the function an exception came out of, if any
    api_calls,            \* number of calls of get_gpt_category
    file_writes,          \* number of calls of save_transactions_to_json
    stdout                \* the line printed last by __main__

vars == <<pc, OPENAI_API_KEY, sms_text, transaction_details, extracted, transaction,
          response, file, file0, disk, result, raised, api_calls,
          file_writes, stdout>>

\* The longest text read, in lines after the first.
MaxLines == 5

-----------------------------------------------------------------------------
(* Lexemes and character classes of Python's re module                     *)

Digits == {"0", "1", "2", "3", "4", "5", "6", "7", "8", "9"}

Whitespace == {" ", "\n"}

Punctuation == {":", ";", "-", "."}

\* The character classes of the patterns: \d, [\d.], [\d-] and [\w\s]
\* (letters of any script, digits, blanks and line breaks).
InClass(c, cls) ==
    CASE cls = "\\d"     -> c \in Digits
      [] cls = "[\\d.]"  -> c \in Digits \cup {"."}
      [] cls = "[\\d-]"  -> c \in Digits \cup {"-"}
      [] cls = "[\\w\\s]" -> c \notin Punctuation

Min(S) == CHOOSE x \in S : \A y \in S : x <= y

\* The length of the longest run of lexemes of class cls that starts at
\* s[i]: what a greedy cls+ takes.
RunLen(s, i, cls) ==
    LET stops == {j \in i..Len(s) : ~InClass(s[j], cls)}
    IN  IF stops = {} THEN Len(s) - i + 1 ELSE Min(stops) - i

\* The literal lit stands in s at position i.
LitAt(s, i, lit) ==
    /\ i >= 1
    /\ i + Len(lit) - 1 <= Len(s)
    /\ \A k \in 1..Len(lit) : s[i + k - 1] = lit[k]

\* s[i] exists and is of class cls.
ClassAt(s, i, cls) == i >= 1 /\ i <= Len(s) /\ InClass(s[i], cls)

\* A match object: start() and group(1), with start(1); ok = FALSE is None.
NoMatch == [ok |-> FALSE, start |-> 0, gstart |-> 0, g |-> <<>>]

Match(s, i, gs, glen) ==
    [ok |-> TRUE, start |-> i, gstart |-> gs, g |-> SubSeq(s, gs, gs + glen - 1)]

-----------------------------------------------------------------------------
(* The six patterns of extract_transaction_details.  re.search returns the *)
(* match at the leftmost position at which the pattern matches.            *)

PurchaseMarker == <<"shiraa">>

TransferMarker == <<"bitaqa", " ", "itimaniya", ":", "tahwil">>

\* A type_match that also accepts the marker at the start of a later line.
type_match_multiline(t) ==
    LET hits == {i \in 1..Len(t) :
                    /\ (i = 1 \/ t[i - 1] = "\n")
                    /\ (LitAt(t, i, PurchaseMarker) \/ LitAt(t, i, TransferMarker))}
        i == Min(hits)
    IN  IF hits = {} THEN NoMatch
        ELSE IF LitAt(t, i, PurchaseMarker) THEN Match(t, i, i, Len(PurchaseMarker))
        ELSE Match(t, i, i, Len(TransferMarker))

\* re.search(r"^(A|B)", transaction): ^ without re.MULTILINE is the start
\* of the whole text.
type_match(t) ==
    IF LitAt(t, 1, PurchaseMarker) THEN Match(t, 1, 1, Len(PurchaseMarker))
    ELSE IF LitAt(t, 1, TransferMarker) THEN Match(t, 1, 1, Len(TransferMarker))
    ELSE NoMatch

AmountMarker == <<"mablagh", ":", "SAR", " ">>

\* re.search(r"mablagh:SAR ([\d.]+)", transaction)
amount_match(t) ==
    LET hits == {i \in 1..Len(t) :
                    LitAt(t, i, AmountMarker) /\ ClassAt(t, i + 4, "[\\d.]")}
        i == Min(hits)
    IN  IF hits = {} THEN NoMatch
        ELSE Match(t, i, i + 4, RunLen(t, i + 4, "[\\d.]"))

VendorMarker == <<"lada", ":">>

\* re.search(r"lada:([\w\s]+)", transaction)
vendor_match(t) ==
    LET hits == {i \in 1..Len(t) :
                    LitAt(t, i, VendorMarker) /\ ClassAt(t, i + 2, "[\\w\\s]")}
        i == Min(hits)
    IN  IF hits = {} THEN NoMatch
        ELSE Match(t, i, i + 2, RunLen(t, i + 2, "[\\w\\s]"))

DateMarker == <<"fi", ":">>

\* The length of \d{1,2} at s[i], greedy.
OneOrTwoDigits(s, i) == IF RunLen(s, i, "\\d") >= 2 THEN 2 ELSE RunLen(s, i, "\\d")

\* re.search(r"fi:(\d{2}-\d{1,2}-\d{1,2})", transaction): after the label
\* two digits, "-", a run of one or two digits that ends at a "-", and one
\* or two digits.
date_match(t) ==
    LET mlen(i) == RunLen(t, i + 5, "\\d")
        hits == {i \in 1..Len(t) :
                    /\ LitAt(t, i, DateMarker)
                    /\ ClassAt(t, i + 2, "\\d") /\ ClassAt(t, i + 3, "\\d")
                    /\ LitAt(t, i + 4, <<"-">>)
                    /\ mlen(i) \in {1, 2}
                    /\ LitAt(t, i + 5 + mlen(i), <<"-">>)
                    /\ ClassAt(t, i + 6 + mlen(i), "\\d")}
        i == Min(hits)
    IN  IF hits = {} THEN NoMatch
        ELSE Match(t, i, i + 2, 4 + mlen(i) + OneOrTwoDigits(t, i + 6 + mlen(i)))

\* re.search(r"fi:[\d-]+ (\d{2}:\d{2})", transaction): after the label the
\* whole run of digits and dashes, a blank, and the clock.
time_match(t) ==
    LET r(i) == RunLen(t, i + 2, "[\\d-]")
        c(i) == i + 3 + r(i)
        hits == {i \in 1..Len(t) :
                    /\ LitAt(t, i, DateMarker)
                    /\ r(i) >= 1
                    /\ LitAt(t, i + 2 + r(i), <<" ">>)
                    /\ ClassAt(t, c(i), "\\d") /\ ClassAt(t, c(i) + 1, "\\d")
                    /\ LitAt(t, c(i) + 2, <<":">>)
                    /\ ClassAt(t, c(i) + 3, "\\d") /\ ClassAt(t, c(i) + 4, "\\d")}
        i == Min(hits)
    IN  IF hits = {} THEN NoMatch ELSE Match(t, i, c(i), 5)

CardMarker == <<"bitaqa", ":">>

\* re.search(r'bitaqa:(\d{4})', transaction)
card_number_match(t) ==
    LET hits == {i \in 1..Len(t) :
                    /\ LitAt(t, i, CardMarker)
                    /\ \A k \in 0..3 : ClassAt(t, i + 2 + k, "\\d")}
        i == Min(hits)
    IN  IF hits = {} THEN NoMatch ELSE Match(t, i, i + 2, 4)

-----------------------------------------------------------------------------
(* Python values.  A value is [py |-> its type, v |-> its content]; a str  *)
(* is a sequence of lexemes, a dict a function of its keys, a list a       *)
(* sequence.  A call ends as [exc |-> "" or the exception, val |-> value]. *)

None == [py |-> "None", v |-> <<>>]

List(items) == [py |-> "list", v |-> items]

Dict(d) == [py |-> "dict", v |-> d]

Return(x) == [exc |-> "", val |-> x]

Raise(e) == [exc |-> e, val |-> None]

\* bool(x) of None, a list or a dict
Truthy(x) ==
    CASE x.py = "None" -> FALSE
      [] x.py = "list" -> x.v # <<>>
      [] x.py = "dict" -> DOMAIN x.v # {}

DigitSeq == <<"0", "1", "2", "3", "4", "5", "6", "7", "8", "9">>

DigitVal(c) == (CHOOSE k \in 1..10 : DigitSeq[k] = c) - 1

RECURSIVE NumVal(_)
\* int() of a sequence of digits
NumVal(s) ==
    IF s = <<>> THEN 0
    ELSE NumVal(SubSeq(s, 1, Len(s) - 1)) * 10 + DigitVal(s[Len(s)])

RECURSIVE Normal(_, _)
\* The decimal n / 10^e without trailing zeros after the point.
Normal(n, e) == IF e > 0 /\ n % 10 = 0 THEN Normal(n \div 10, e - 1)
                ELSE [num |-> n, exp |-> e]

\* float(s) for s of digits and points: the number num / 10^exp, or
\* ValueError when s has no digit or more than one point.
float(s) ==
    LET points == {i \in 1..Len(s) : s[i] = "."}
        digits == SelectSeq(s, LAMBDA c : c \in Digits)
        frac   == IF points = {} THEN 0 ELSE Len(s) - Min(points)
    IN  IF Cardinality(points) > 1 \/ digits = <<>> \/ ~(\A i \in 1..Len(s) : InClass(s[i], "[\\d.]"))
        THEN Raise("ValueError")
        ELSE Return(Normal(NumVal(digits), frac))

\* A strip that trims nothing.
strip_nothing(s) == s

\* str.strip(): without leading and trailing whitespace
strip(s) ==
    LET keep == {i \in 1..Len(s) : s[i] \notin Whitespace}
    IN  IF keep = {} THEN <<>>
        ELSE SubSeq(s, Min(keep), CHOOSE j \in keep : \A k \in keep : k <= j)

RECURSIVE replace(_, _)
\* str.replace(old, ""): every occurrence of old removed, left to right
replace(s, old) ==
    IF s = <<>> THEN <<>>
    ELSE IF LitAt(s, 1, old) THEN replace(SubSeq(s, Len(old) + 1, Len(s)), old)
    ELSE <<s[1]>> \o replace(Tail(s), old)

IsLeap(y) == y % 4 = 0 /\ (y % 100 # 0 \/ y % 400 = 0)

DaysIn(m, y) ==
    CASE m \in {4, 6, 9, 11} -> 30
      [] m = 2 -> IF IsLeap(y) THEN 29 ELSE 28
      [] OTHER -> 31

\* %y: 00..68 are 2000..2068 and 69..99 are 1969..1999
century(yy) == IF yy <= 68 THEN 2000 + yy ELSE 1900 + yy

\* pd.to_datetime(s, format="%y-%m-%d %H:%M"): the whole of s must read as
\* two digits, "-", a month, "-", a day of that month, " ", an hour, ":",
\* a minute; ValueError otherwise.
to_datetime(s) ==
    LET ml == RunLen(s, 4, "\\d")
        dp == 5 + ml
        dl == RunLen(s, dp, "\\d")
        hp == dp + dl + 1
        hl == RunLen(s, hp, "\\d")
        np == hp + hl + 1
        nl == RunLen(s, np, "\\d")
        shape == /\ RunLen(s, 1, "\\d") = 2 /\ LitAt(s, 3, <<"-">>)
                 /\ ml \in {1, 2} /\ LitAt(s, 4 + ml, <<"-">>)
                 /\ dl \in {1, 2} /\ LitAt(s, dp + dl, <<" ">>)
                 /\ hl \in {1, 2} /\ LitAt(s, hp + hl, <<":">>)
                 /\ nl \in {1, 2} /\ np + nl - 1 = Len(s)
        y == century(NumVal(SubSeq(s, 1, 2)))
        m == NumVal(SubSeq(s, 4, 3 + ml))
        d == NumVal(SubSeq(s, dp, dp + dl - 1))
        h == NumVal(SubSeq(s, hp, hp + hl - 1))
        n == NumVal(SubSeq(s, np, np + nl - 1))
    IN  IF shape /\ m \in 1..12 /\ d >= 1 /\ d <= DaysIn(m, y) /\ h <= 23 /\ n <= 59
        THEN Return([year |-> y, month |-> m, day |-> d, hour |-> h, minute |-> n])
        ELSE Raise("ValueError")

\* The last w decimal digits of n, zero-padded.
Pad(n, w) == [k \in 1..w |-> DigitSeq[((n \div (10 ^ (w - k))) % 10) + 1]]

\* An isoformat that does not pad the month and the day.
isoformat_unpadded(dt) ==
    LET P(n) == IF n < 10 THEN Pad(n, 1) ELSE Pad(n, 2)
    IN  Pad(dt.year, 4) \o <<"-">> \o P(dt.month) \o <<"-">> \o P(dt.day)

\* full_datetime.date().isoformat(): YYYY-MM-DD
isoformat(dt) ==
    Pad(dt.year, 4) \o <<"-">> \o Pad(dt.month, 2) \o <<"-">> \o Pad(dt.day, 2)

-----------------------------------------------------------------------------
(* extract_transaction_details                                             *)

ArtifactNewlineFi == <<"\n", "fi">>

\* vendor_match.group(1).strip().replace("\nfi", "")
vendor_of(g) == replace(strip(g), ArtifactNewlineFi)

\* An all() that does not look at the time.
all_found_but_time(am, vm, dm, sm, tm, cm) ==
    am.ok /\ vm.ok /\ dm.ok /\ tm.ok /\ cm.ok

\* all([amount_match, vendor_match, date_match, time_match, type_match,
\*      card_number_match])
all_found(am, vm, dm, sm, tm, cm) ==
    am.ok /\ vm.ok /\ dm.ok /\ sm.ok /\ tm.ok /\ cm.ok

\* The dict literal of the return statement; .group(1) of None is an
\* AttributeError, and the conversions may raise ValueError.
record_of(am, vm, dm, sm, tm, cm) ==
    IF ~(vm.ok /\ dm.ok /\ sm.ok)
    THEN Raise("AttributeError")
    ELSE LET vendor        == vendor_of(vm.g)
             date_str      == dm.g
             time_str      == sm.g
             full_datetime == to_datetime(date_str \o <<" ">> \o time_str)
             amount        == IF am.ok THEN float(am.g) ELSE Raise("AttributeError")
         IN  IF full_datetime.exc # "" THEN Raise(full_datetime.exc)
             ELSE IF ~tm.ok THEN Raise("AttributeError")
             ELSE IF amount.exc # "" THEN Raise(amount.exc)
             ELSE IF ~cm.ok THEN Raise("AttributeError")
             ELSE Return(Dict(
                    ("Type" :> tm.g) @@
                    ("Amount (SAR)" :> amount.val) @@
                    ("Vendor" :> vendor) @@
                    ("Category" :> <<"Other">>) @@
                    ("Card Number" :> cm.g) @@
                    ("Date" :> isoformat(full_datetime.val)) @@
                    ("Time" :> time_str)))

\* def extract_transaction_details(transaction); print() returns None, and
\* so does falling off the end of the function.
extract_transaction_details(t) ==
    IF ~type_match(t).ok
    THEN Return(None)
    ELSE LET am == amount_match(t)
             vm == vendor_match(t)
             dm == date_match(t)
             sm == time_match(t)
             tm == type_match(t)
             cm == card_number_match(t)
         IN  IF all_found(am, vm, dm, sm, tm, cm)
             THEN record_of(am, vm, dm, sm, tm, cm)
             ELSE Return(None)

-----------------------------------------------------------------------------
(* get_gpt_category                                                        *)

valid_categories ==
    {<<"Food">>, <<"Shopping">>, <<"Transport">>, <<"Health">>, <<"Education">>,
     <<"Utilities">>, <<"Entertainment">>, <<"Other">>}

\* What client.chat.completions.create and the reading of its result can do:
\* a text, no choice at all, a choice whose content is None, or an error.
NoResponse == [kind |-> "none", content |-> <<>>]

TextResponse(c) == [kind |-> "text", content |-> c]

Responses ==
    {TextResponse(<<"Food">>), TextResponse(<<"Entertainment">>), TextResponse(<<"Other">>),
     TextResponse(<<" ", "Food", "\n">>), TextResponse(<<"food">>),
     TextResponse(<<"Food", ".">>), TextResponse(<<>>), TextResponse(<<"Groceries">>),
     TextResponse(<<"Food", " ", "Shopping">>)}
    \cup {[kind |-> k, content |-> <<>>] : k \in {"no_choices", "none_content", "error"}}

\* category if category in valid_categories else "Other"
checked(category) == IF category \in valid_categories THEN category ELSE <<"Other">>

\* The try block: the call, response.choices[0].message.content.strip(),
\* the check.
try_get_gpt_category(vendor, amount, r) ==
    CASE r.kind = "error"        -> Raise("APIError")
      [] r.kind = "no_choices"   -> Raise("IndexError")
      [] r.kind = "none_content" -> Raise("AttributeError")
      [] OTHER                   -> Return(checked(strip(r.content)))

\* A get_gpt_category without its except clause.
get_gpt_category_no_except(vendor, amount, r) == try_get_gpt_category(vendor, amount, r)

\* def get_gpt_category(vendor, amount): try ... except Exception: "Other"
get_gpt_category(vendor, amount, r) ==
    LET t == try_get_gpt_category(vendor, amount, r)
    IN  IF t.exc # "" THEN Return(<<"Other">>) ELSE t

-----------------------------------------------------------------------------
(* analyze_transaction, save_transactions_to_json, process_sms_text        *)

\* An analyze_transaction that appends the record without classifying it.
analyze_transaction_unclassified(t, r) ==
    IF Truthy(t) THEN [exc |-> "", val |-> List(<<t.v>>), calls |-> 0]
    ELSE [exc |-> "", val |-> List(<<>>), calls |-> 0]

\* def analyze_transaction(transaction): the list, and the number of calls
\* of get_gpt_category made.
analyze_transaction(t, r) ==
    IF Truthy(t)
    THEN LET c == get_gpt_category(t.v["Vendor"], t.v["Amount (SAR)"], r)
         IN  IF c.exc # ""
             THEN [exc |-> c.exc, val |-> None, calls |-> 1]
             ELSE [exc |-> "", calls |-> 1,
                   val |-> List(<<[t.v EXCEPT !["Category"] = c.val]>>)]
    ELSE [exc |-> "", val |-> List(<<>>), calls |-> 0]

\* The keys of the record in the order of the dict literal.
Keys == <<"Type", "Amount (SAR)", "Vendor", "Category", "Card Number", "Date", "Time">>

\* json.dump(data, ...): an array of objects, each the key and value pairs
\* of a dict in the order of insertion.
dump(data) ==
    [i \in 1..Len(data.v) |-> [k \in 1..Len(Keys) |-> <<Keys[k], data.v[i][Keys[k]]>>]]

Absent == [state |-> "absent", doc |-> <<>>]

Truncated == [state |-> "truncated", doc |-> <<>>]

Written(doc) == [state |-> "written", doc |-> doc]

\* The file left by an earlier run.
OldFile ==
    Written(dump(List(<<
        ("Type" :> <<"shiraa">>) @@
        ("Amount (SAR)" :> [num |-> 12, exp |-> 0]) @@
        ("Vendor" :> <<"OLD">>) @@
        ("Category" :> <<"Food">>) @@
        ("Card Number" :> <<"0", "5", "1", "0">>) @@
        ("Date" :> <<"2", "0", "2", "5", "-", "0", "1", "-", "0", "1">>) @@
        ("Time" :> <<"0", "0", ":", "0", "0">>)>>)))

\* What open() and the writes do: succeed, fail at open() (no directory, no
\* permission), or fail after open() has emptied the file.
DiskOutcomes == {"ok", "open_error", "write_error"}

\* def save_transactions_to_json(data, filename): the exception and the file
\* it leaves.
save_transactions_to_json(data, f, d) ==
    CASE d = "open_error"  -> [exc |-> "OSError", file |-> f]
      [] d = "write_error" -> [exc |-> "OSError", file |-> Truncated]
      [] OTHER             -> [exc |-> "", file |-> Written(dump(data))]

\* An "if transaction:" that is always taken.
saves_always(t) == TRUE

\* if transaction:  (line 118)
saves(t) == Truthy(t)

\* A handler that lets the exception through.
except_nothing(o) == o

\* except Exception as e: print(...); return None  (lines 122-124)
except_Exception(o) == IF o.exc # "" THEN Return(None) ELSE o

-----------------------------------------------------------------------------
(* The texts read.  A text is a first line and up to MaxLines further      *)
(* lines, all different, each after a line break.                          *)

CardLine == <<"bitaqa", ":", "0", "5", "1", "0", ";", "mada", "-", "abl", " ", "bay">>

AmountLine == <<"mablagh", ":", "SAR", " ", "4", "7", ".", "8", "0">>

VendorLine == <<"lada", ":", "HALA", " ", "MARK">>

DateLine == <<"fi", ":", "2", "5", "-", "2", "-", "2", " ", "0", "6", ":", "4", "4">>

\* a date of 1999 without a clock
DateOnlyLine == <<"fi", ":", "9", "9", "-", "1", "2", "-", "3", "1">>

\* a vendor with a blank before the line break
VendorBlankLine == <<"lada", ":", "HALA", " ">>

\* month 13
BadDateLine == <<"fi", ":", "2", "5", "-", "1", "3", "-", "2", " ", "0", "6", ":", "4", "4">>

Lines == {CardLine, AmountLine, VendorLine, DateLine, DateOnlyLine,
          VendorBlankLine, BadDateLine}

\* The first line: a type marker, another type, or an empty line before the
\* type marker.
FirstLines == {PurchaseMarker, TransferMarker, <<"hawala">>, <<"\n", "shiraa">>}

RECURSIVE Join(_)
Join(ls) == IF ls = <<>> THEN <<>> ELSE <<"\n">> \o Head(ls) \o Join(Tail(ls))

\* The sequences of at most MaxLines lines, no line twice.
Bodies ==
    UNION {{ls \in [1..k -> Lines] : \A i, j \in 1..k : i # j => ls[i] # ls[j]} :
           k \in 0..MaxLines}

Texts == {f \o Join(ls) : f \in FirstLines, ls \in Bodies}

\* The sample of the source's last line.
SampleText == PurchaseMarker \o Join(<<CardLine, AmountLine, VendorLine, DateLine>>)

-----------------------------------------------------------------------------
(* The process                                                             *)

Init ==
    /\ pc = "load"
    /\ OPENAI_API_KEY \in BOOLEAN
    /\ file \in {Absent, OldFile}
    /\ file0 = file
    /\ sms_text = <<>>
    /\ transaction_details = None
    /\ extracted = None
    /\ transaction = None
    /\ response = NoResponse
    /\ disk = "idle"
    /\ result = None
    /\ raised = ""
    /\ api_calls = 0
    /\ file_writes = 0
    /\ stdout = ""

\* Lines 22-25: the module raises ValueError without the credential.
ModuleLoad ==
    /\ pc = "load"
    /\ IF OPENAI_API_KEY
       THEN pc' = "main" /\ UNCHANGED raised
       ELSE pc' = "crashed" /\ raised' = "module"
    /\ UNCHANGED <<extracted, OPENAI_API_KEY, sms_text, transaction_details, transaction,
                   response, file, file0, disk, result, api_calls, file_writes,
                   stdout>>

\* Line 128: sms_text = input(...), which raises EOFError when the standard
\* input is at its end; nothing catches it.
ReadInput ==
    /\ pc = "main"
    /\ \/ /\ \E t \in Texts : sms_text' = t
          /\ pc' = "extract"
          /\ UNCHANGED raised
       \/ /\ pc' = "crashed"
          /\ raised' = "input"
          /\ UNCHANGED sms_text
    /\ UNCHANGED <<extracted, OPENAI_API_KEY, transaction_details, transaction, response,
                   file, file0, disk, result, api_calls, file_writes, stdout>>

\* How process_sms_text leaves after an exception o out of function f: by
\* its handler with None, or not at all.
Caught(o, f) ==
    LET h == except_Exception(o)
    IN  /\ raised' = f
        /\ IF h.exc = "" THEN pc' = "report" /\ result' = h.val
                         ELSE pc' = "crashed" /\ UNCHANGED result

\* Line 116: transaction_details = extract_transaction_details(sms_text)
Extract ==
    /\ pc = "extract"
    /\ LET o == extract_transaction_details(sms_text)
       IN  IF o.exc = ""
           THEN /\ transaction_details' = o.val
                /\ extracted' = o.val
                /\ pc' = "analyze"
                /\ UNCHANGED <<result, raised>>
           ELSE /\ Caught(o, "extract_transaction_details")
                /\ UNCHANGED <<transaction_details, extracted>>
    /\ UNCHANGED <<OPENAI_API_KEY, sms_text, transaction, response, file, file0,
                   disk, api_calls, file_writes, stdout>>

\* Lines 117, 118 and 121: transaction = analyze_transaction(...), and the
\* return of None when the list is empty.  The list holds the very dict
\* that transaction_details names, so the new Category shows in both.
Analyze ==
    /\ pc = "analyze"
    /\ \E r \in IF Truthy(transaction_details) THEN Responses ELSE {NoResponse} :
         LET a == analyze_transaction(transaction_details, r)
         IN  /\ api_calls' = api_calls + a.calls
             /\ response' = IF a.calls > 0 THEN r ELSE NoResponse
             /\ IF a.exc = ""
                THEN /\ transaction' = a.val
                     /\ transaction_details' =
                            IF a.calls > 0 THEN Dict(a.val.v[1]) ELSE transaction_details
                     /\ IF saves(a.val)
                        THEN pc' = "save" /\ UNCHANGED result
                        ELSE pc' = "report" /\ result' = None
                     /\ UNCHANGED raised
                ELSE /\ Caught(a, "analyze_transaction")
                     /\ UNCHANGED <<transaction, transaction_details>>
    /\ UNCHANGED <<extracted, OPENAI_API_KEY, sms_text, file, file0, disk, file_writes, stdout>>

\* Lines 119-120: save_transactions_to_json(transaction); return transaction
Save ==
    /\ pc = "save"
    /\ \E d \in DiskOutcomes :
         LET s == save_transactions_to_json(transaction, file, d)
         IN  /\ disk' = d
             /\ file' = s.file
             /\ file_writes' = file_writes + 1
             /\ IF s.exc = ""
                THEN pc' = "report" /\ result' = transaction /\ UNCHANGED raised
                ELSE Caught(Raise(s.exc), "save_transactions_to_json")
    /\ UNCHANGED <<extracted, OPENAI_API_KEY, sms_text, transaction_details, transaction,
                   response, file0, api_calls, stdout>>

\* Lines 130-133: the one line __main__ prints
Report ==
    /\ pc = "report"
    /\ stdout' = IF Truthy(result) THEN "Transaction processed successfully"
                                   ELSE "Could not process transaction"
    /\ pc' = "done"
    /\ UNCHANGED <<extracted, OPENAI_API_KEY, sms_text, transaction_details, transaction,
                   response, file, file0, disk, result, raised, api_calls,
                   file_writes>>

Next == ModuleLoad \/ ReadInput \/ Extract \/ Analyze \/ Save \/ Report

Spec == Init /\ [][Next]_vars

-----------------------------------------------------------------------------
(* What the claims speak of                                                *)

FixedCategorySet ==
    {<<"Food">>, <<"Shopping">>, <<"Transport">>, <<"Health">>, <<"Education">>,
     <<"Utilities">>, <<"Entertainment">>, <<"Other">>}

\* extract_transaction_details has been called and process_sms_text has
\* gone on or ended.
PastExtract == pc \in {"analyze", "save", "report", "done"}

\* extract_transaction_details has just returned.
JustExtracted == pc = "analyze"

\* extract_transaction_details has just returned or raised.
ExtractEnded ==
    pc = "analyze" \/ (pc = "report" /\ raised = "extract_transaction_details")

\* The run has extracted a record.
HasRecord == PastExtract /\ transaction_details.py = "dict"

\* The text starts, at its first character, with one of the two markers.
StartsWithTypeMarker(t) ==
    \/ (Len(t) >= 1 /\ SubSeq(t, 1, 1) = <<"shiraa">>)
    \/ (Len(t) >= 5 /\ SubSeq(t, 1, 5) = <<"bitaqa", " ", "itimaniya", ":", "tahwil">>)

\* t is c without the whitespace around it.
IsTrimOf(t, c) ==
    \E i \in 1..(Len(c) + 1), j \in 0..Len(c) :
        /\ t = SubSeq(c, i, j)
        /\ \A k \in 1..(i - 1) : c[k] \in {" ", "\n"}
        /\ \A k \in (j + 1)..Len(c) : c[k] \in {" ", "\n"}
        /\ (i <= j => c[i] \notin {" ", "\n"} /\ c[j] \notin {" ", "\n"})

\* The category the classifier owes for a response: the label that stands
\* alone in the text but for whitespace, and "Other" when there is none.
CategoryFor(r) ==
    LET c == r.content
        alone == {i \in 1..Len(c) : /\ <<c[i]>> \in FixedCategorySet
                                     /\ \A k \in 1..Len(c) : k # i => c[k] \in {" ", "\n"}}
    IN  IF r.kind = "text" /\ alone # {}
        THEN <<c[CHOOSE i \in alone : TRUE]>>
        ELSE <<"Other">>

\* get_gpt_category has just returned.
Classified == pc = "save" /\ api_calls > 0

ReturnedCategory == transaction.v[1]["Category"]

-----------------------------------------------------------------------------
\* C1: get_gpt_category returns a member of the fixed set of eight labels
\* whatever the service does (any text, a malformed response, an error),
\* no exception ever comes out of it, and when the service call raises the
\* result is "Other".
C1_ClosedSetNoRaise ==
    /\ raised # "analyze_transaction"
    /\ Classified =>
         /\ transaction.py = "list" /\ Len(transaction.v) = 1
         /\ ReturnedCategory \in FixedCategorySet
         /\ (response.kind = "error" => ReturnedCategory = <<"Other">>)

C1_Witness ==
    /\ pc = "save" /\ api_calls = 1 /\ response.kind = "error"
    /\ ReturnedCategory = <<"Other">>

\* C3: for a text that does not start, at its very first character, with
\* one of the two type markers, extract_transaction_details returns None,
\* whatever else the text holds.
C3_HardFilter ==
    (ExtractEnded /\ ~StartsWithTypeMarker(sms_text)) =>
        /\ transaction_details = None
        /\ raised # "extract_transaction_details"

C3_Witness ==
    /\ JustExtracted
    /\ sms_text = <<"\n", "shiraa">> \o Join(<<CardLine, AmountLine, VendorLine, DateLine>>)
    /\ transaction_details = None

\* C4: for a text that starts with a type marker, if one of the five value
\* patterns is absent, extract_transaction_details returns None; a record
\* is returned only when all five are found.
C4_AllFiveOrNothing ==
    LET found == /\ amount_match(sms_text).ok /\ vendor_match(sms_text).ok
                 /\ date_match(sms_text).ok /\ time_match(sms_text).ok
                 /\ card_number_match(sms_text).ok
    IN  /\ (ExtractEnded /\ StartsWithTypeMarker(sms_text) /\ ~found) =>
               /\ transaction_details = None
               /\ raised # "extract_transaction_details"
        /\ (JustExtracted /\ transaction_details.py = "dict") => found

C4_Witness ==
    /\ JustExtracted /\ StartsWithTypeMarker(sms_text)
    /\ amount_match(sms_text).ok /\ vendor_match(sms_text).ok
    /\ date_match(sms_text).ok /\ card_number_match(sms_text).ok
    /\ ~time_match(sms_text).ok
    /\ transaction_details = None

\* C5: when the text yields no record (type marker rejected, a value
\* pattern missing, or a date and time that do not parse) process_sms_text
\* returns None, does not call the classifier and leaves the output file as
\* it was.
C5_NoRecordNoEffect ==
    (PastExtract /\ transaction_details = None) =>
        /\ api_calls = 0 /\ response = NoResponse
        /\ file_writes = 0 /\ file = file0
        /\ pc \in {"analyze", "report", "done"}
        /\ (pc \in {"report", "done"} => result = None)

C5_Witness ==
    /\ pc = "done" /\ raised = "extract_transaction_details"
    /\ transaction_details = None /\ result = None
    /\ file0 = OldFile /\ file = OldFile /\ api_calls = 0

\* C6: get_gpt_category returns the response without the whitespace around
\* it if and only if that trimmed text is exactly one of the eight labels;
\* for every other text it returns "Other".
C6_TrimmedExactLabel ==
    (Classified /\ response.kind = "text") =>
        \A i \in 1..(Len(response.content) + 1), j \in 0..Len(response.content) :
            LET t == SubSeq(response.content, i, j)
            IN  IsTrimOf(t, response.content) =>
                    /\ (ReturnedCategory = t <=> t \in FixedCategorySet)
                    /\ (t \notin FixedCategorySet => ReturnedCategory = <<"Other">>)

C6_Witness ==
    /\ Classified /\ response = TextResponse(<<" ", "Food", "\n">>)
    /\ ReturnedCategory = <<"Food">>

\* C7: every record returned by extract_transaction_details has a Vendor
\* that is not empty, has no whitespace at either end and does not hold a
\* line break followed by the date label.
C7_VendorClean ==
    (JustExtracted /\ transaction_details.py = "dict") =>
        LET vendor == transaction_details.v["Vendor"]
        IN  /\ vendor # <<>>
            /\ vendor[1] \notin {" ", "\n"}
            /\ vendor[Len(vendor)] \notin {" ", "\n"}
            /\ \A i \in 1..(Len(vendor) - 1) : ~(vendor[i] = "\n" /\ vendor[i + 1] = "fi")

\* C8: for the sample (purchase, card 0510, SAR 47.80, HALA MARK, 25-2-2
\* 06:44) extract_transaction_details returns purchase, 47.80, HALA MARK,
\* 0510, 2025-02-02, 06:44 and the category Other.
C8_SampleRecord ==
    (PastExtract /\ sms_text = SampleText) =>
        /\ raised # "extract_transaction_details"
        /\ transaction_details.py = "dict"
        /\ JustExtracted =>
             /\ DOMAIN transaction_details.v =
                  {"Type", "Amount (SAR)", "Vendor", "Category", "Card Number", "Date", "Time"}
             /\ transaction_details.v["Type"] = <<"shiraa">>
             /\ transaction_details.v["Amount (SAR)"] = [num |-> 478, exp |-> 1]
             /\ transaction_details.v["Vendor"] = <<"HALA", " ", "MARK">>
             /\ transaction_details.v["Category"] = <<"Other">>
             /\ transaction_details.v["Card Number"] = <<"0", "5", "1", "0">>
             /\ transaction_details.v["Date"] =
                  <<"2", "0", "2", "5", "-", "0", "2", "-", "0", "2">>
             /\ transaction_details.v["Time"] = <<"0", "6", ":", "4", "4">>

C8_Witness ==
    /\ JustExtracted /\ sms_text = SampleText
    /\ transaction_details.py = "dict"
    /\ transaction_details.v["Date"] = <<"2", "0", "2", "5", "-", "0", "2", "-", "0", "2">>

\* C10: in every record returned by extract_transaction_details the Time
\* is the clock that directly follows the very date string that produced
\* the Date, also when the text holds several date labels or one with a
\* date and no clock.
C10_SameOccurrence ==
    (JustExtracted /\ transaction_details.py = "dict") =>
        LET dm  == date_match(sms_text)
            end == dm.gstart + Len(dm.g)
        IN  /\ time_match(sms_text).start = dm.start
            /\ end + 5 <= Len(sms_text)
            /\ sms_text[end] = " "
            /\ transaction_details.v["Time"] = SubSeq(sms_text, end + 1, end + 5)


TwoOutcomes == {"Transaction processed successfully", "Could not process transaction"}

\* C2 as stated: whichever of the listed failures occurs, the missing
\* credential at startup included, it does not escape as a crash, and the
\* process ends with one of the two outcomes.
C2_Original ==
    /\ pc = "crashed" =>
         raised \notin {"module", "extract_transaction_details", "analyze_transaction",
                        "save_transactions_to_json"}
    /\ pc = "done" => stdout \in TwoOutcomes

\* C2 amended: a missing credential is a fatal error of the module's load,
\* raised before any text is read and with neither outcome printed.  Once
\* a text has been read, no failure escapes: an exception out of the
\* extractor, the classifier call or the file write makes process_sms_text
\* return None, and the process ends with one of the two outcomes, the
\* successful one exactly when process_sms_text returned a non-empty list.
C2_Amended ==
    /\ ~OPENAI_API_KEY => (pc \in {"load", "crashed"} /\ sms_text = <<>> /\ stdout = "")
    /\ pc = "crashed" =>
         /\ raised \in {"module", "input"} /\ sms_text = <<>> /\ stdout = ""
         /\ raised = "module" <=> ~OPENAI_API_KEY
    /\ sms_text # <<>> =>
         /\ pc \in {"extract", "analyze", "save", "report", "done"}
         /\ raised # "" =>
              /\ raised \in {"extract_transaction_details", "analyze_transaction",
                              "save_transactions_to_json"}
              /\ pc \in {"report", "done"} /\ result = None
    /\ pc = "done" =>
         /\ stdout \in TwoOutcomes
         /\ stdout = "Transaction processed successfully" <=>
              (result.py = "list" /\ result.v # <<>>)
    /\ pc # "done" => stdout = ""

C2_Witness ==
    /\ pc = "done" /\ raised = "save_transactions_to_json"
    /\ result = None /\ stdout = "Could not process transaction"

\* C9 as stated: in every run that extracts a record the file is written
\* exactly once, and the written file and the returned value are the
\* one-element list of that record with the classifier's category.
C9_Original ==
    (HasRecord /\ pc \in {"report", "done"}) =>
        /\ api_calls = 1 /\ file_writes = 1
        /\ result.py = "list" /\ Len(result.v) = 1
        /\ result.v[1]["Category"] = CategoryFor(response)
        /\ file.state = "written" /\ Len(file.doc) = 1

\* C9 amended: in every run that extracts a record the classifier is
\* called exactly once, before the write is attempted, and its result is
\* the only change to the record; the write is attempted exactly once,
\* after that.  When the write succeeds, the file and the returned value
\* are the one-element list of that record with the classifier's category;
\* when it fails, process_sms_text returns None and the file is as the
\* failure left it (untouched, or emptied).
C9_Amended ==
    HasRecord =>
        /\ pc = "analyze" =>
             api_calls = 0 /\ file_writes = 0 /\ file = file0 /\ result = None
        /\ pc = "save" =>
             /\ api_calls = 1 /\ file_writes = 0 /\ file = file0 /\ result = None
             /\ transaction.py = "list" /\ Len(transaction.v) = 1
             /\ transaction.v[1] =
                  [extracted.v EXCEPT !["Category"] = CategoryFor(response)]
             /\ transaction_details.v = transaction.v[1]
        /\ pc \in {"report", "done"} =>
             /\ api_calls = 1 /\ file_writes = 1
             /\ transaction.py = "list" /\ Len(transaction.v) = 1
             /\ transaction.v[1]["Category"] = CategoryFor(response)
             /\ disk = "ok" =>
                  /\ result = transaction
                  /\ file.state = "written" /\ Len(file.doc) = 1
                  /\ \A k \in 1..7 :
                       file.doc[1][k] = <<Keys[k], transaction.v[1][Keys[k]]>>
             /\ disk # "ok" =>
                  /\ result = None /\ raised = "save_transactions_to_json"
                  /\ file = IF disk = "open_error" THEN file0 ELSE Truncated

C9_Witness ==
    /\ pc = "done" /\ HasRecord /\ disk = "ok"
    /\ response = TextResponse(<<"Food">>)
    /\ file0 = OldFile /\ file # file0
    /\ result.py = "list" /\ Len(result.v) = 1
    /\ result.v[1]["Category"] = <<"Food">>

====
